---- MODULE Spec2Model ----
(***************************************************************************)
(* Post / Tag consistency of the blog backend: the handlers of             *)
(* routes/posts.js over the Post and Tag collections.  Every `await` of a  *)
(* handler is one step, so that requests can interleave exactly where the  *)
(* event loop lets them.  The browser client of services/api.ts is        *)
(* modelled by its request and response interceptors.                      *)
(***************************************************************************)
EXTENDS Integers, Sequences, FiniteSets, TLC

VARIABLES
    posts,      \* Post collection: post id -> document, or NoPost
    tags,       \* Tag collection: sequence of documents, a Tag's _id is its index
    nextPost,   \* number of Post documents created so far (ids are fresh)
    started,    \* number of requests that have entered a handler
    req,        \* per request slot: position in the handler and its locals
    client      \* the browser: localStorage, environment, the last request sent

vars == <<posts, tags, nextPost, started, req, client>>

-----------------------------------------------------------------------------
(* Bounds *)
MaxPosts == 3
MaxRequests == 3

PostIds == 1..MaxPosts
Slots == {"r1", "r2", "r3"}
Users == {"A", "B"}

-----------------------------------------------------------------------------
(* The browser *)

\* localStorage.getItem('token') when nothing is stored
null == "null"

\* no request has been sent yet
NoRequest == [method |-> "none", url |-> <<>>, Authorization |-> null, stored |-> null]

\* nobody is signed in, no development token is configured
ClientIdle == [token |-> null, devToken |-> null, sent |-> NoRequest]

-----------------------------------------------------------------------------
(* Strings are sequences of characters, so that case folding, trimming and *)
(* splitting are computed and not assumed.                                 *)

sgo == <<"g", "o">>
sGo == <<"G", "o">>
sGOpad == <<" ", "G", "O", " ">>
sr == <<"r">>
sp == <<"p">>
csvGo == <<"G", "o", ",", "g", "o", ",", " ", "G", "O", " ">>

Range(s) == {s[i] : i \in 1..Len(s)}

lowerChar(c) ==
    CASE c = "G" -> "g"
      [] c = "O" -> "o"
      [] OTHER -> c

toLowerCase(s) == [i \in 1..Len(s) |-> lowerChar(s[i])]

RECURSIVE trimStart(_)
trimStart(s) ==
    IF s # <<>> /\ Head(s) = " " THEN trimStart(Tail(s)) ELSE s

RECURSIVE trimEnd(_)
trimEnd(s) ==
    IF s # <<>> /\ s[Len(s)] = " " THEN trimEnd(SubSeq(s, 1, Len(s) - 1)) ELSE s

trim(s) == trimEnd(trimStart(s))

\* String.prototype.split(','): "" gives [""], "a,b" gives ["a", "b"]
RECURSIVE splitFrom(_, _)
splitFrom(s, cur) ==
    IF s = <<>> THEN <<cur>>
    ELSE IF Head(s) = "," THEN <<cur>> \o splitFrom(Tail(s), <<>>)
    ELSE splitFrom(Tail(s), Append(cur, Head(s)))

split(s) == splitFrom(s, <<>>)

\* The `tags` field of a request body: an array of strings or one string
Arr(a) == [isArray |-> TRUE, val |-> a]
Str(s) == [isArray |-> FALSE, val |-> s]

\* const tagNames = Array.isArray(tags) ? tags : tags.split(',').map(tag => tag.trim())
tagNamesOf(tagsIn) ==
    IF tagsIn.isArray THEN tagsIn.val
    ELSE [i \in 1..Len(split(tagsIn.val)) |-> trim(split(tagsIn.val)[i])]

\* for (const tagName of tagNames) { if (tagName) { ... tagName.toLowerCase() ... } }
\* The names the loop looks up, in order: empty names are skipped.
lookupNames(tagsIn) ==
    LET nonEmpty == SelectSeq(tagNamesOf(tagsIn), LAMBDA n : n # <<>>)
    IN  [i \in 1..Len(nonEmpty) |-> toLowerCase(nonEmpty[i])]

-----------------------------------------------------------------------------
(* The document store *)

NoPost == [exists |-> FALSE]
NoTag == 0

\* JavaScript values that the handlers compare: an ObjectId object or a string
ObjectId(n) == [type |-> "ObjectId", v |-> n]
toString(o) == [type |-> "string", v |-> o.v]

\* SameValueZero, as Array.prototype.includes compares: primitives by value;
\* an object equals nothing but itself, and never a string
SameValueZero(a, b) == a.type = "string" /\ b.type = "string" /\ a.v = b.v

\* Array.prototype.includes on a plain array
includes(arr, x) == \E i \in 1..Len(arr) : SameValueZero(arr[i], x)

\* MongooseArray.prototype.includes: indexOf turns an ObjectId argument into
\* its string and compares with ==, which turns each element into its string
mongooseIncludes(arr, x) ==
    LET s == IF x.type = "ObjectId" THEN toString(x) ELSE x
    IN  \E i \in 1..Len(arr) : toString(arr[i]) = s

ObjectIds(ids) == [i \in 1..Len(ids) |-> ObjectId(ids[i])]

\* Tag.findOne({ name }): the _id of the first Tag with that name, or NoTag
TagFindOne(tgs, name) ==
    IF \E i \in 1..Len(tgs) : tgs[i].name = name
    THEN CHOOSE i \in 1..Len(tgs) :
            /\ tgs[i].name = name
            /\ \A j \in 1..(i - 1) : tgs[j].name # name
    ELSE NoTag

\* new Tag({ name }): postCount defaults to 0
NewTag(name) == [name |-> name, postCount |-> 0]

\* unique index on Tag.name: a save of a second Tag with a name fails
TagNameTaken(tgs, name) == \E i \in 1..Len(tgs) : tgs[i].name = name

\* a read-count/add/write-count cycle in place of $inc: the count written is
\* the one the handler saw when it was entered, plus d
IncPostCountReadModifyWrite(tgs, t, d) ==
    LET r == CHOOSE s \in Slots : req[s].pc \notin {"idle", "done"} /\ t \in req[s].todo
        seen == IF t \in 1..Len(req[r].preTags) THEN req[r].preTags[t].postCount ELSE 0
    IN  [tgs EXCEPT ![t] = [@ EXCEPT !.postCount = seen + d]]

\* one document of Tag.updateMany(..., { $inc: { postCount: d } })
IncPostCount(tgs, t, d) ==
    [tgs EXCEPT ![t] = [@ EXCEPT !.postCount = @ + d]]

\* an empty filter {} in place of { _id: { $in: ids } }: every Tag matches
MatchAll(tgs, ids) == 1..Len(tgs)

\* { _id: { $in: ids } }: the Tag documents the filter matches
MatchIn(tgs, ids) == {t \in 1..Len(tgs) : t \in Range(ids)}

-----------------------------------------------------------------------------
(* Request slots *)

\* the ownership check left out
IsAuthorUnchecked(post, u) == TRUE

\* post.author.toString() !== req.user._id.toString() answers 403
IsAuthor(post, u) == post.author = u

\* a body field that was not sent
undefined == "undefined"

titleMin == 3
titleMax == 200
contentMin == 10

chars(n) == [i \in 1..n |-> "a"]

\* req.body without its tags, and req.file; a field that was not sent is
\* undefined
Body(title, content, status) ==
    [title |-> title, content |-> content, status |-> status,
     excerpt |-> undefined, seoTitle |-> undefined, seoDescription |-> undefined,
     featured |-> undefined, file |-> undefined]

\* the shortest title and content that pass validation, nothing else sent
DefaultBody == Body(chars(titleMin), chars(contentMin), undefined)

\* body('title').trim().isLength({ min: 3, max: 200 }),
\* body('content').trim().isLength({ min: 10 }),
\* body('status').optional().isIn(['draft', 'published'])
\* the upper limit of the title left out
titleMinOnly(b) == Len(trim(b.title)) >= titleMin

titleValid(b) == Len(trim(b.title)) >= titleMin /\ Len(trim(b.title)) <= titleMax
contentValid(b) == Len(trim(b.content)) >= contentMin
statusValid(b) == b.status = undefined \/ b.status \in {"draft", "published"}
\* validationResult(req).array(): the fields that failed
validationErrors(b) ==
    (IF titleValid(b) THEN {} ELSE {"title"}) \cup
    (IF contentValid(b) THEN {} ELSE {"content"}) \cup
    (IF statusValid(b) THEN {} ELSE {"status"})

\* validationResult(req).isEmpty()
validationResult(b) == validationErrors(b) = {}

\* req.body.tags when no tags field was sent
tagsUndefined == [undefined |-> TRUE]

\* const { ..., tags = [], ... } = req.body
tagsDefault(tagsIn) == IF tagsIn = tagsUndefined THEN Arr(<<>>) ELSE tagsIn

\* the counters of a new Post
PostDefaults == [viewCount |-> 0, likeCount |-> 0]

\* Post.status is draft or published and draft when it is not set
postStatus(v) == IF v = undefined THEN "draft" ELSE v

\* const { ..., status = 'draft', ..., featured = false } = req.body;
\* let coverImage = ''; if (req.file) coverImage = ...
newPostFields(u, tagIds, b) ==
    [exists |-> TRUE, author |-> u, tags |-> tagIds,
     status |-> IF b.status = undefined THEN "draft" ELSE b.status,
     excerpt |-> b.excerpt, seoTitle |-> b.seoTitle,
     seoDescription |-> b.seoDescription,
     featured |-> IF b.featured = undefined THEN "false" ELSE b.featured,
     coverImage |-> IF b.file = undefined THEN "" ELSE b.file,
     viewCount |-> PostDefaults.viewCount, likeCount |-> PostDefaults.likeCount]

\* the resolved tag ids left out of the new document
newPostWithoutTags(u, tagIds, b) == newPostFields(u, <<>>, b)

\* new Post({ title, content, excerpt, coverImage, author: req.user._id,
\*            tags: tagIds, status, seoTitle, seoDescription, featured })
newPost(u, tagIds, b) == newPostFields(u, tagIds, b)

\* A slot holds one request: `pc` is the await the handler is suspended at,
\* the other fields are the handler's locals.  preTags/prePosts record the
\* collections as they were when the request entered the handler.
Idle ==
    [op |-> "none", pc |-> "idle", user |-> "A", id |-> 0,
     tagsIn |-> Arr(<<>>), names |-> <<>>, tagIds |-> <<>>, post |-> NoPost,
     todo |-> {}, added |-> <<>>, res |-> 0,
     body |-> DefaultBody, role |-> "user", ret |-> 0, errors |-> {},
     tag |-> NoTag, list |-> {},
     preTags |-> <<>>, prePosts |-> <<>>]

Free(r) == req[r].pc \in {"idle", "done"}

Running(r) == ~Free(r)

\* creates that have not yet allocated their Post id
PendingCreates ==
    Cardinality({s \in Slots : req[s].op = "create" /\ Running(s) /\ req[s].id = 0})

Enter(op, u, id, tagsIn, b) ==
    [Idle EXCEPT !.op = op, !.user = u, !.id = id, !.body = b,
                 !.tagsIn = tagsIn, !.names = lookupNames(tagsDefault(tagsIn)),
                 !.preTags = tags, !.prePosts = posts]

Respond(rec, code) == [rec EXCEPT !.pc = "done", !.res = code]

-----------------------------------------------------------------------------
(* POST /api/posts *)

\* the await that follows the tag loop of the create handler
AfterNamesCreate(rec) ==
    IF rec.names = <<>> THEN [rec EXCEPT !.pc = "savePost"]
    ELSE [rec EXCEPT !.pc = "findTag"]

\* the request passes authentication; 400 when validation fails, before
\* anything is read or written
CreateBegin(r, u, tagsIn, b) ==
    /\ Free(r)
    /\ started < MaxRequests
    /\ nextPost + PendingCreates < MaxPosts
    /\ started' = started + 1
    /\ LET rec == Enter("create", u, 0, tagsIn, b)
       IN  req' = [req EXCEPT ![r] =
                IF ~validationResult(b)
                THEN Respond([rec EXCEPT !.errors = validationErrors(b)], 400)
                ELSE AfterNamesCreate(rec)]
    /\ UNCHANGED <<posts, tags, nextPost, client>>

\* let tag = await Tag.findOne({ name: tagName.toLowerCase() })
CreateFindTag(r) ==
    /\ req[r].op = "create" /\ req[r].pc = "findTag"
    /\ LET tag == TagFindOne(tags, Head(req[r].names))
       IN  req' = [req EXCEPT ![r] =
                IF tag = NoTag THEN [@ EXCEPT !.pc = "saveTag"]
                ELSE AfterNamesCreate([@ EXCEPT !.tagIds = Append(@, tag),
                                                !.names = Tail(@)])]
    /\ UNCHANGED <<posts, tags, nextPost, started, client>>

\* tag = new Tag({ name }); await tag.save(); tagIds.push(tag._id)
CreateSaveTag(r) ==
    /\ req[r].op = "create" /\ req[r].pc = "saveTag"
    /\ IF TagNameTaken(tags, Head(req[r].names))
       THEN \* duplicate key: save() rejects, the catch block answers 500
            /\ req' = [req EXCEPT ![r] = Respond(@, 500)]
            /\ UNCHANGED tags
       ELSE /\ tags' = Append(tags, NewTag(Head(req[r].names)))
            /\ req' = [req EXCEPT ![r] =
                    AfterNamesCreate([@ EXCEPT !.tagIds = Append(@, Len(tags) + 1),
                                               !.names = Tail(@)])]
    /\ UNCHANGED <<posts, nextPost, started, client>>

\* const post = new Post({ ..., author: req.user._id, tags: tagIds }); await post.save()
CreateSavePost(r) ==
    /\ req[r].op = "create" /\ req[r].pc = "savePost"
    /\ nextPost' = nextPost + 1
    /\ posts' = [posts EXCEPT ![nextPost + 1] =
            newPost(req[r].user, req[r].tagIds, req[r].body)]
    /\ req' = [req EXCEPT ![r] = [@ EXCEPT !.id = nextPost + 1, !.pc = "incTags",
                                           !.todo = MatchIn(tags, req[r].tagIds)]]
    /\ UNCHANGED <<tags, started, client>>

\* await Tag.updateMany({ _id: { $in: tagIds } }, { $inc: { postCount: 1 } }):
\* the matched documents are updated one at a time, each atomically
CreateIncTags(r) ==
    /\ req[r].op = "create" /\ req[r].pc = "incTags"
    /\ IF req[r].todo = {}
       THEN /\ req' = [req EXCEPT ![r].pc = "populate"]
            /\ UNCHANGED tags
       ELSE \E t \in req[r].todo :
            /\ tags' = IncPostCount(tags, t, 1)
            /\ req' = [req EXCEPT ![r] =
                    [@ EXCEPT !.todo = @ \ {t},
                              !.pc = IF req[r].todo = {t} THEN "populate" ELSE "incTags"]]
    /\ UNCHANGED <<posts, nextPost, started, client>>

\* await Post.findById(post._id).populate(...); res.status(201).json(...)
CreatePopulate(r) ==
    /\ req[r].op = "create" /\ req[r].pc = "populate"
    /\ req' = [req EXCEPT ![r] = Respond(@, 201)]
    /\ UNCHANGED <<posts, tags, nextPost, started, client>>

CreateStep(r) ==
    \/ CreateFindTag(r)
    \/ CreateSaveTag(r)
    \/ CreateSavePost(r)
    \/ CreateIncTags(r)
    \/ CreatePopulate(r)

-----------------------------------------------------------------------------
(* PUT /api/posts/:id *)

\* const oldTagIds = post.tags || []
oldTagIds(post) == post.tags

\* the filter without its negation
removedTagIdsNotNegated(old, tagIds) ==
    SelectSeq(old, LAMBDA tagId :
        includes(ObjectIds(tagIds), toString(ObjectId(tagId))))

\* oldTagIds.filter(tagId => !tagIds.includes(tagId.toString())):
\* tagIds is a plain array of ObjectIds and is asked for a string
removedTagIds(old, tagIds) ==
    SelectSeq(old, LAMBDA tagId :
        ~includes(ObjectIds(tagIds), toString(ObjectId(tagId))))

\* tagIds.filter(tagId => !oldTagIds.includes(tagId)): oldTagIds is the
\* document's MongooseArray
addedTagIds(old, tagIds) ==
    SelectSeq(tagIds, LAMBDA tagId :
        ~mongooseIncludes(ObjectIds(old), ObjectId(tagId)))

\* the await that follows the tag loop of the update handler: the first
\* updateMany, over the removed tags
AfterNamesUpdate(rec, tgs) ==
    IF rec.names = <<>>
    THEN [rec EXCEPT !.pc = "decTags",
                     !.todo = MatchIn(tgs, removedTagIds(oldTagIds(rec.post), rec.tagIds)),
                     !.added = addedTagIds(oldTagIds(rec.post), rec.tagIds)]
    ELSE [rec EXCEPT !.pc = "findTag"]

\* 400 when validation fails; const post = await Post.findById(id); 404 when
\* absent, 403 when the requester is not the author
UpdateBegin(r, u, id, tagsIn, b) ==
    /\ Free(r)
    /\ started < MaxRequests
    /\ started' = started + 1
    /\ LET rec == Enter("update", u, id, tagsIn, b)
       IN  req' = [req EXCEPT ![r] =
                IF ~validationResult(b)
                THEN Respond([rec EXCEPT !.errors = validationErrors(b)], 400)
                ELSE IF ~posts[id].exists THEN Respond(rec, 404)
                ELSE IF ~IsAuthor(posts[id], u) THEN Respond(rec, 403)
                ELSE AfterNamesUpdate([rec EXCEPT !.post = posts[id]], tags)]
    /\ UNCHANGED <<posts, tags, nextPost, client>>

\* let tag = await Tag.findOne({ name: tagName.toLowerCase() })
UpdateFindTag(r) ==
    /\ req[r].op = "update" /\ req[r].pc = "findTag"
    /\ LET tag == TagFindOne(tags, Head(req[r].names))
       IN  req' = [req EXCEPT ![r] =
                IF tag = NoTag THEN [@ EXCEPT !.pc = "saveTag"]
                ELSE AfterNamesUpdate([@ EXCEPT !.tagIds = Append(@, tag),
                                                !.names = Tail(@)], tags)]
    /\ UNCHANGED <<posts, tags, nextPost, started, client>>

\* tag = new Tag({ name }); await tag.save(); tagIds.push(tag._id)
UpdateSaveTag(r) ==
    /\ req[r].op = "update" /\ req[r].pc = "saveTag"
    /\ IF TagNameTaken(tags, Head(req[r].names))
       THEN /\ req' = [req EXCEPT ![r] = Respond(@, 500)]
            /\ UNCHANGED tags
       ELSE /\ tags' = Append(tags, NewTag(Head(req[r].names)))
            /\ req' = [req EXCEPT ![r] =
                    AfterNamesUpdate([@ EXCEPT !.tagIds = Append(@, Len(tags) + 1),
                                               !.names = Tail(@)], tags')]
    /\ UNCHANGED <<posts, nextPost, started, client>>

\* await Tag.updateMany({ _id: { $in: removedTagIds } }, { $inc: { postCount: -1 } })
UpdateDecTags(r) ==
    /\ req[r].op = "update" /\ req[r].pc = "decTags"
    /\ IF req[r].todo = {}
       THEN /\ req' = [req EXCEPT ![r] =
                    [@ EXCEPT !.pc = "incTags", !.todo = MatchIn(tags, req[r].added)]]
            /\ UNCHANGED tags
       ELSE \E t \in req[r].todo :
            /\ tags' = IncPostCount(tags, t, -1)
            /\ req' = [req EXCEPT ![r] =
                    IF req[r].todo = {t}
                    THEN [@ EXCEPT !.pc = "incTags", !.todo = MatchIn(tags, req[r].added)]
                    ELSE [@ EXCEPT !.todo = @ \ {t}]]
    /\ UNCHANGED <<posts, nextPost, started, client>>

\* await Tag.updateMany({ _id: { $in: addedTagIds } }, { $inc: { postCount: 1 } })
UpdateIncTags(r) ==
    /\ req[r].op = "update" /\ req[r].pc = "incTags"
    /\ IF req[r].todo = {}
       THEN /\ req' = [req EXCEPT ![r].pc = "savePost"]
            /\ UNCHANGED tags
       ELSE \E t \in req[r].todo :
            /\ tags' = IncPostCount(tags, t, 1)
            /\ req' = [req EXCEPT ![r] =
                    [@ EXCEPT !.todo = @ \ {t},
                              !.pc = IF req[r].todo = {t} THEN "savePost" ELSE "incTags"]]
    /\ UNCHANGED <<posts, nextPost, started, client>>

\* if (req.file) post.coverImage = ...;
\* Object.assign(post, { title, content, excerpt, tags: tagIds, status,
\*   seoTitle, seoDescription,
\*   featured: featured !== undefined ? featured : post.featured })
Assigned(rec) ==
    [rec.post EXCEPT
        !.coverImage = IF rec.body.file = undefined THEN @ ELSE rec.body.file,
        !.excerpt = rec.body.excerpt,
        !.tags = rec.tagIds,
        !.status = postStatus(rec.body.status),
        !.seoTitle = rec.body.seoTitle,
        !.seoDescription = rec.body.seoDescription,
        !.featured = IF rec.body.featured # undefined THEN rec.body.featured ELSE @]

\* await post.save() writes the paths whose value differs from the loaded one
SaveModified(cur, loaded, assigned) ==
    [f \in DOMAIN cur |-> IF assigned[f] = loaded[f] THEN cur[f] ELSE assigned[f]]

\* await post.save(): save() of a loaded document rejects when the document
\* is gone
UpdateSavePost(r) ==
    /\ req[r].op = "update" /\ req[r].pc = "savePost"
    /\ IF posts[req[r].id].exists
       THEN /\ posts' = [posts EXCEPT ![req[r].id] =
                    SaveModified(@, req[r].post, Assigned(req[r]))]
            /\ req' = [req EXCEPT ![r].pc = "populate"]
       ELSE /\ req' = [req EXCEPT ![r] = Respond(@, 500)]
            /\ UNCHANGED posts
    /\ UNCHANGED <<tags, nextPost, started, client>>

\* await Post.findById(post._id).populate(...); res.json(...)
UpdatePopulate(r) ==
    /\ req[r].op = "update" /\ req[r].pc = "populate"
    /\ req' = [req EXCEPT ![r] = Respond(@, 200)]
    /\ UNCHANGED <<posts, tags, nextPost, started, client>>

UpdateStep(r) ==
    \/ UpdateFindTag(r)
    \/ UpdateSaveTag(r)
    \/ UpdateDecTags(r)
    \/ UpdateIncTags(r)
    \/ UpdateSavePost(r)
    \/ UpdatePopulate(r)

-----------------------------------------------------------------------------
(* DELETE /api/posts/:id *)

\* const post = await Post.findById(id); 404 when absent, 403 when the
\* requester is not the author
DeleteBegin(r, u, id) ==
    /\ Free(r)
    /\ started < MaxRequests
    /\ started' = started + 1
    /\ LET rec == Enter("delete", u, id, Arr(<<>>), DefaultBody)
       IN  req' = [req EXCEPT ![r] =
                IF ~posts[id].exists THEN Respond(rec, 404)
                ELSE IF ~IsAuthor(posts[id], u) THEN Respond(rec, 403)
                ELSE [rec EXCEPT !.post = posts[id], !.pc = "decTags",
                                 !.todo = MatchIn(tags, posts[id].tags)]]
    /\ UNCHANGED <<posts, tags, nextPost, client>>

\* await Tag.updateMany({ _id: { $in: post.tags } }, { $inc: { postCount: -1 } })
DeleteDecTags(r) ==
    /\ req[r].op = "delete" /\ req[r].pc = "decTags"
    /\ IF req[r].todo = {}
       THEN /\ req' = [req EXCEPT ![r].pc = "remove"]
            /\ UNCHANGED tags
       ELSE \E t \in req[r].todo :
            /\ tags' = IncPostCount(tags, t, -1)
            /\ req' = [req EXCEPT ![r] =
                    [@ EXCEPT !.todo = @ \ {t},
                              !.pc = IF req[r].todo = {t} THEN "remove" ELSE "decTags"]]
    /\ UNCHANGED <<posts, nextPost, started, client>>

\* the document kept and marked instead of removed
markedDraft(post) == IF post.exists THEN [post EXCEPT !.status = "draft"] ELSE post

\* Post.findByIdAndDelete(id): the document, if there is one, is removed
findByIdAndDelete(post) == NoPost

\* await Post.findByIdAndDelete(id); res.json(...)
DeleteRemove(r) ==
    /\ req[r].op = "delete" /\ req[r].pc = "remove"
    /\ posts' = [posts EXCEPT ![req[r].id] = findByIdAndDelete(@)]
    /\ req' = [req EXCEPT ![r] = Respond(@, 200)]
    /\ UNCHANGED <<tags, nextPost, started, client>>

DeleteStep(r) ==
    \/ DeleteDecTags(r)
    \/ DeleteRemove(r)

-----------------------------------------------------------------------------
(* Requests one at a time, from the empty database *)

TagInputs ==
    { Arr(<<>>), Arr(<<sGo, sgo, sGOpad>>), Arr(<<sgo, sr>>), Arr(<<sr, sp>>),
      Str(csvGo) }

Init ==
    /\ posts = [i \in PostIds |-> NoPost]
    /\ tags = <<>>
    /\ nextPost = 0
    /\ started = 0
    /\ req = [r \in Slots |-> Idle]
    /\ client = ClientIdle

Next ==
    \/ \E u \in Users, tagsIn \in TagInputs : CreateBegin("r1", u, tagsIn, DefaultBody)
    \/ \E u \in Users, id \in PostIds, tagsIn \in TagInputs :
            UpdateBegin("r1", u, id, tagsIn, DefaultBody)
    \/ \E u \in Users, id \in PostIds : DeleteBegin("r1", u, id)
    \/ CreateStep("r1")
    \/ UpdateStep("r1")
    \/ DeleteStep("r1")

Spec == Init /\ [][Next]_vars

-----------------------------------------------------------------------------
(* Vocabulary of the properties *)

TagIdsOf(tgs) == 1..Len(tgs)

\* the request in slot r has been answered with `code`
Answered(r, op, code) == req[r].pc = "done" /\ req[r].op = op /\ req[r].res = code

\* number of existing posts whose tag list contains Tag t
Refs(ps, t) == Cardinality({i \in PostIds : ps[i].exists /\ t \in Range(ps[i].tags)})

\* postCount of Tag t when the request of slot r entered its handler; a Tag
\* the request created itself started at 0
CountBefore(r, t) ==
    IF t \in TagIdsOf(req[r].preTags) THEN req[r].preTags[t].postCount ELSE 0

\* tag sets of the post of slot r's request, before the request and now
OldSet(r) == Range(req[r].prePosts[req[r].id].tags)
NewSet(r) == Range(posts[req[r].id].tags)

HasDuplicates(s) == Len(s) > Cardinality(Range(s))

-----------------------------------------------------------------------------
(* Properties of requests served one at a time (Spec) *)

\* C1: after any sequence of completed create, update and delete requests,
\* served one at a time, every Tag's postCount equals the number of existing
\* posts whose tag list contains the Tag.
C1_PostCountEqualsRefs ==
    Free("r1") => \A t \in TagIdsOf(tags) : tags[t].postCount = Refs(posts, t)

\* C2: an update by the author leaves the postCount of every tag that is in
\* both the old and the new tag set of the post unchanged.
C2_UpdateKeepsCommonTags ==
    Answered("r1", "update", 200) =>
        \A t \in OldSet("r1") \cap NewSet("r1") :
            tags[t].postCount = CountBefore("r1", t)

\* C3: an update by the author from tag set O to N decrements postCount by
\* exactly 1 for every tag in O \ N, increments it by exactly 1 for every tag
\* in N \ O and changes no tag outside both; O is the tag list stored before
\* the update overwrote it.
C3_UpdateAppliesDelta ==
    Answered("r1", "update", 200) =>
        /\ oldTagIds(req["r1"].post) = req["r1"].prePosts[req["r1"].id].tags
        /\ \A t \in TagIdsOf(tags) :
            /\ t \in OldSet("r1") \ NewSet("r1") =>
                    tags[t].postCount = CountBefore("r1", t) - 1
            /\ t \in NewSet("r1") \ OldSet("r1") =>
                    tags[t].postCount = CountBefore("r1", t) + 1
            /\ t \notin OldSet("r1") \cup NewSet("r1") =>
                    tags[t].postCount = CountBefore("r1", t)

\* an update that removed a tag, added a tag, kept a tag and left a fourth alone
C3_Witness ==
    /\ Answered("r1", "update", 200)
    /\ OldSet("r1") \ NewSet("r1") # {}
    /\ NewSet("r1") \ OldSet("r1") # {}
    /\ OldSet("r1") \cap NewSet("r1") # {}

\* C6: a delete by the author removes the post and decrements postCount by
\* exactly 1 for every tag of its tag list, once per tag even when the list
\* holds a tag several times, and changes no other Tag.
C6_DeleteReleasesTags ==
    Answered("r1", "delete", 200) =>
        /\ ~posts[req["r1"].id].exists
        /\ \A t \in TagIdsOf(tags) :
            tags[t].postCount =
                CountBefore("r1", t) - (IF t \in OldSet("r1") THEN 1 ELSE 0)

\* a delete of a post whose list held a tag twice, with another Tag around
C6_Witness ==
    /\ Answered("r1", "delete", 200)
    /\ HasDuplicates(req["r1"].prePosts[req["r1"].id].tags)
    /\ TagIdsOf(tags) \ OldSet("r1") # {}

C8_CreateNewTagCountsOne ==
    Answered("r1", "create", 201) =>
        LET named == Range(lookupNames(req["r1"].tagsIn))
            pre == req["r1"].preTags
        IN  /\ \A n \in named :
                TagFindOne(pre, n) = NoTag =>
                    /\ Cardinality({t \in TagIdsOf(tags) : tags[t].name = n}) = 1
                    /\ TagFindOne(tags, n) \notin TagIdsOf(pre)
                    /\ tags[TagFindOne(tags, n)].postCount = 1
                    /\ TagFindOne(tags, n) \in Range(posts[req["r1"].id].tags)
            /\ \A t \in TagIdsOf(pre) :
                pre[t].name \notin named => tags[t].postCount = pre[t].postCount

\* a create that names an unused tag while a Tag it does not name exists
C8_Witness ==
    /\ Answered("r1", "create", 201)
    /\ \E n \in Range(lookupNames(req["r1"].tagsIn)) :
            TagFindOne(req["r1"].preTags, n) = NoTag
    /\ \E t \in TagIdsOf(req["r1"].preTags) :
            req["r1"].preTags[t].name \notin Range(lookupNames(req["r1"].tagsIn))

\* the names of a request's tag list as the specification folds them:
\* trimmed, lower-cased, empty names dropped, duplicates collapsed
FoldedNames(tagsIn) ==
    LET raw == IF tagsIn.isArray THEN tagsIn.val ELSE split(tagsIn.val)
    IN  {trim(toLowerCase(raw[i])) : i \in 1..Len(raw)} \ {<<>>}

\* C9: a create or update whose tag names differ only in case or surrounding
\* whitespace, and fold to a name no Tag has yet, creates exactly one Tag,
\* raises its postCount by exactly 1 and stores it once in the post's list.
C9_FoldedNamesOneTag ==
    \A op \in {"create", "update"} :
        ( /\ req["r1"].pc = "done" /\ req["r1"].op = op
          /\ req["r1"].res \in {200, 201}
          /\ Cardinality(FoldedNames(req["r1"].tagsIn)) = 1
          /\ \A n \in FoldedNames(req["r1"].tagsIn) :
                TagFindOne(req["r1"].preTags, n) = NoTag )
        => /\ Len(tags) = Len(req["r1"].preTags) + 1
           /\ tags[Len(tags)].name \in FoldedNames(req["r1"].tagsIn)
           /\ tags[Len(tags)].postCount = 1
           /\ posts[req["r1"].id].tags = <<Len(tags)>>

-----------------------------------------------------------------------------
(* Concurrent requests: every slot serves one request, and the requests    *)
(* interleave at their awaits.  Each scenario starts from a database that  *)
(* a sequence of creates leaves behind.                                    *)

Quiescent == \A r \in Slots : Free(r)

NoPosts == [i \in PostIds |-> NoPost]

\* A created [go], B created [go, r]
PostsShared == [NoPosts EXCEPT ![1] = newPost("A", <<1>>, DefaultBody),
                                ![2] = newPost("B", <<1, 2>>, DefaultBody)]
TagsShared == <<[name |-> sgo, postCount |-> 2], [name |-> sr, postCount |-> 1]>>

InitShared ==
    /\ posts = PostsShared
    /\ tags = TagsShared
    /\ nextPost = 2
    /\ started = 0
    /\ req = [r \in Slots |-> Idle]
    /\ client = ClientIdle

\* the Tag both posts share
X == TagFindOne(TagsShared, sgo)

(* Updates of different posts that keep the shared tag go: the author of   *)
(* post 1 adds p or nothing, the author of post 2 drops r or nothing.      *)
UpdatesOf ==
    [r \in Slots |->
        CASE r = "r1" -> {<<"A", 1, Arr(<<sgo, sp>>)>>, <<"A", 1, Arr(<<sgo>>)>>}
          [] r = "r2" -> {<<"B", 2, Arr(<<sgo>>)>>, <<"B", 2, Arr(<<sgo, sr>>)>>}
          [] OTHER -> {}]

NextUpd ==
    \E r \in Slots :
        \/ /\ req[r].pc = "idle"
           /\ \E in \in UpdatesOf[r] : UpdateBegin(r, in[1], in[2], in[3], DefaultBody)
        \/ UpdateStep(r)

SpecUpd == InitShared /\ [][NextUpd]_vars

\* C4: once concurrent updates of different posts that share tag X and add
\* or remove disjoint other tags have all finished, X's postCount equals the
\* number of posts that reference X.
C4_SharedTagCountAfterUpdates ==
    Quiescent => tags[X].postCount = Refs(posts, X)

(* Creates, and deletes of different posts, around the existing tag go.    *)
CreateInputs == {Arr(<<sgo, sp>>), Arr(<<sr>>)}

NextCD ==
    \E r \in Slots :
        \/ /\ req[r].pc = "idle"
           /\ \E u \in Users, tagsIn \in CreateInputs : CreateBegin(r, u, tagsIn, DefaultBody)
        \/ /\ req[r].pc = "idle"
           /\ \E u \in Users, id \in {1, 2} :
                /\ \A s \in Slots : ~(req[s].op = "delete" /\ req[s].id = id)
                /\ DeleteBegin(r, u, id)
        \/ CreateStep(r)
        \/ DeleteStep(r)

SpecCD == InitShared /\ [][NextCD]_vars

CreatesOf(t) == {r \in Slots : Answered(r, "create", 201) /\ t \in Range(req[r].tagIds)}
DeletesOf(t) == {r \in Slots : Answered(r, "delete", 200) /\ t \in Range(req[r].post.tags)}

\* C5: once interleaved creates and deletes of different posts have all
\* finished, X's postCount has changed by the number of creates that
\* reference X minus the number of deleted posts that referenced X.
C5_NoLostCountUpdate ==
    Quiescent =>
        tags[X].postCount =
            TagsShared[X].postCount
                + Cardinality(CreatesOf(X)) - Cardinality(DeletesOf(X))

\* a create and a delete that both touched X, each between the steps of the other
C5_Witness ==
    /\ Quiescent
    /\ CreatesOf(X) # {}
    /\ DeletesOf(X) # {}
    /\ \E c \in CreatesOf(X), d \in DeletesOf(X) :
            /\ req[d].prePosts = PostsShared
            /\ req[d].post.exists
            /\ req[c].preTags = TagsShared
            /\ req[d].preTags = TagsShared

(* Creates and updates that name p, a name no Tag has yet.                 *)
RaceInputs == {Arr(<<sp>>), Arr(<<sgo, sp>>)}

RaceSlots == {"r1", "r2"}

NextRace ==
    \E r \in RaceSlots :
        \/ /\ req[r].pc = "idle"
           /\ \E u \in Users, tagsIn \in RaceInputs : CreateBegin(r, u, tagsIn, DefaultBody)
        \/ /\ req[r].pc = "idle"
           /\ \E id \in {1, 2}, tagsIn \in RaceInputs :
                /\ \A s \in Slots : ~(req[s].op = "update" /\ req[s].id = id)
                /\ UpdateBegin(r, PostsShared[id].author, id, tagsIn, DefaultBody)
        \/ CreateStep(r)
        \/ UpdateStep(r)

SpecRace == InitShared /\ [][NextRace]_vars

\* C10: at most one Tag exists per name, also when requests that name the
\* same unused name interleave between findOne and save; every such request
\* then completes successfully and references that one Tag.
C10_OneTagPerNameAllSucceed ==
    /\ \A i, j \in TagIdsOf(tags) : tags[i].name = tags[j].name => i = j
    /\ \A r \in Slots :
        req[r].pc = "done" =>
            /\ req[r].res \in {200, 201}
            /\ \A n \in Range(lookupNames(req[r].tagsIn)) :
                    TagFindOne(tags, n) \in Range(req[r].tagIds)

(* Deletes of the two posts by any user, several of them on the same post. *)
NextDel ==
    \E r \in Slots :
        \/ /\ req[r].pc = "idle"
           /\ \E u \in Users, id \in {1, 2} : DeleteBegin(r, u, id)
        \/ DeleteStep(r)

SpecDel == InitShared /\ [][NextDel]_vars

\* C11: no Tag's postCount is negative in any reachable state, also when two
\* deletes of one post both read the post before either removes it.
C11_PostCountNeverNegative ==
    \A t \in TagIdsOf(tags) : tags[t].postCount >= 0

-----------------------------------------------------------------------------
(* GET /api/posts/:id *)

\* req.user after optionalAuth: nobody, or a user with a role
Anonymous == [user |-> "none", role |-> "anonymous"]

Callers ==
    {Anonymous} \cup
    {[user |-> u, role |-> ro] : u \in Users, ro \in {"user", "admin", "super_admin"}}

\* every signed-in user let through
anonymousOnly(role) == role = "anonymous"

\* !req.user || (req.user.role !== 'admin' && req.user.role !== 'super_admin')
notAdmin(role) ==
    role = "anonymous" \/ (role # "admin" /\ role # "super_admin")

\* the view counter written back from the value that was read
viewCountSet(cur, loaded) == loaded.viewCount + 1

\* Post.findByIdAndUpdate(post._id, { $inc: { viewCount: 1 } })
viewCountInc(cur, loaded) == cur.viewCount + 1

\* if (post.status !== 'published' && notAdmin) return 404;
\* if (post.status === 'published') await Post.findByIdAndUpdate(...)
ReadGate(rec) ==
    IF rec.post.status # "published" /\ notAdmin(rec.role) THEN Respond(rec, 404)
    ELSE IF rec.post.status = "published" THEN [rec EXCEPT !.pc = "incView"]
    ELSE Respond([rec EXCEPT !.ret = rec.post.viewCount], 200)

\* post = await Post.findById(id)...lean()
ReadBegin(r, c, id) ==
    /\ Free(r)
    /\ started < MaxRequests
    /\ started' = started + 1
    /\ LET rec == [Enter("read", c.user, id, Arr(<<>>), DefaultBody)
                        EXCEPT !.role = c.role]
       IN  req' = [req EXCEPT ![r] =
                IF ~posts[id].exists THEN [rec EXCEPT !.pc = "findSlug"]
                ELSE ReadGate([rec EXCEPT !.post = posts[id]])]
    /\ UNCHANGED <<posts, tags, nextPost, client>>

\* if (!post) post = await Post.findOne({ slug: id })...lean(): no Post has
\* the id of a Post as its slug; if (!post) return 404
ReadFindSlug(r) ==
    /\ req[r].op = "read" /\ req[r].pc = "findSlug"
    /\ req' = [req EXCEPT ![r] = Respond(@, 404)]
    /\ UNCHANGED <<posts, tags, nextPost, started, client>>

\* await Post.findByIdAndUpdate(post._id, { $inc: { viewCount: 1 } });
\* post.viewCount += 1; res.json({ post })
ReadIncView(r) ==
    /\ req[r].op = "read" /\ req[r].pc = "incView"
    /\ IF posts[req[r].id].exists
       THEN posts' = [posts EXCEPT ![req[r].id].viewCount =
                            viewCountInc(posts[req[r].id], req[r].post)]
       ELSE UNCHANGED posts
    /\ req' = [req EXCEPT ![r] =
            Respond([@ EXCEPT !.ret = req[r].post.viewCount + 1], 200)]
    /\ UNCHANGED <<tags, nextPost, started, client>>

ReadStep(r) == ReadFindSlug(r) \/ ReadIncView(r)

(* Post 1 of A is published, post 2 of B is a draft, no other Post exists. *)
PostsPublished == [PostsShared EXCEPT ![1].status = "published"]

InitPublished ==
    /\ posts = PostsPublished
    /\ tags = TagsShared
    /\ nextPost = 2
    /\ started = 0
    /\ req = [r \in Slots |-> Idle]
    /\ client = ClientIdle

ReadCallers ==
    {Anonymous, [user |-> "A", role |-> "user"], [user |-> "B", role |-> "user"],
     [user |-> "B", role |-> "admin"], [user |-> "A", role |-> "super_admin"]}

(* Reads of any Post id by any caller, one per slot, in any interleaving.  *)
NextRead ==
    \E r \in Slots :
        \/ /\ req[r].pc = "idle"
           /\ \E c \in ReadCallers, id \in PostIds : ReadBegin(r, c, id)
        \/ ReadStep(r)

SpecRead == InitPublished /\ [][NextRead]_vars

\* the reads of Post id that were answered with the Post
ReadsAnswered(id) ==
    {r \in Slots : Answered(r, "read", 200) /\ req[r].id = id}

\* C12: a read of a published Post is answered with the Post whoever the
\* caller is and raises its viewCount by exactly 1, so k reads in any
\* interleaving raise it by k; a read of a draft never changes viewCount.
C12_ReadCountsViews ==
    \A id \in PostIds : posts[id].exists =>
        /\ posts[id].status = "published" =>
            /\ posts[id].viewCount =
                    PostsPublished[id].viewCount + Cardinality(ReadsAnswered(id))
            /\ \A r \in Slots :
                    req[r].op = "read" /\ req[r].id = id /\ req[r].pc = "done"
                        => req[r].res = 200
        /\ posts[id].status # "published" =>
                posts[id].viewCount = PostsPublished[id].viewCount

\* three reads of the published Post by an anonymous caller, a user and an
\* admin have finished and a draft was read by an admin before
C12_Witness ==
    /\ Quiescent
    /\ posts[1].viewCount = PostsPublished[1].viewCount + 3
    /\ \E a, b, c \in Slots :
        /\ req[a].id = 1 /\ req[a].role = "anonymous"
        /\ req[b].id = 1 /\ req[b].role = "user"
        /\ req[c].id = 1 /\ req[c].role = "admin"

-----------------------------------------------------------------------------
(* POST /api/posts/:id/like *)

\* the like left out
likeCountKept(post) == post

\* post.likeCount += 1
likeCountAdd(post) == [post EXCEPT !.likeCount = @ + 1]

\* const post = await Post.findById(id);
\* if (!post || post.status !== 'published') return 404
LikeBegin(r, u, id) ==
    /\ Free(r)
    /\ started < MaxRequests
    /\ started' = started + 1
    /\ LET rec == Enter("like", u, id, Arr(<<>>), DefaultBody)
       IN  req' = [req EXCEPT ![r] =
                IF ~posts[id].exists \/ posts[id].status # "published"
                THEN Respond(rec, 404)
                ELSE [rec EXCEPT !.post = posts[id], !.pc = "save"]]
    /\ UNCHANGED <<posts, tags, nextPost, client>>

\* post.likeCount += 1; await post.save();
\* res.json({ ..., likeCount: post.likeCount })
LikeSave(r) ==
    /\ req[r].op = "like" /\ req[r].pc = "save"
    /\ IF posts[req[r].id].exists
       THEN /\ posts' = [posts EXCEPT ![req[r].id] =
                    SaveModified(@, req[r].post, likeCountAdd(req[r].post))]
            /\ req' = [req EXCEPT ![r] =
                    Respond([@ EXCEPT !.ret = likeCountAdd(req[r].post).likeCount], 200)]
       ELSE /\ req' = [req EXCEPT ![r] = Respond(@, 500)]
            /\ UNCHANGED posts
    /\ UNCHANGED <<tags, nextPost, started, client>>

LikeStep(r) == LikeSave(r)

PubBody == Body(chars(titleMin), chars(contentMin), "published")
DraftBody == Body(chars(titleMin), chars(contentMin), "draft")

(* The life of Posts, one request at a time: A creates a Post with the    *)
(* new tag p, anybody updates, deletes or reads any Post id, B likes.      *)
NextLife ==
    \/ \E b \in {PubBody, DraftBody} : CreateBegin("r1", "A", Arr(<<sp>>), b)
    \/ \E u \in Users, id \in PostIds, b \in {PubBody, DraftBody} :
            UpdateBegin("r1", u, id, Arr(<<sp>>), b)
    \/ \E u \in Users, id \in PostIds : DeleteBegin("r1", u, id)
    \/ \E id \in PostIds : LikeBegin("r1", "B", id)
    \/ \E c \in {Anonymous, [user |-> "B", role |-> "admin"]}, id \in PostIds :
            ReadBegin("r1", c, id)
    \/ CreateStep("r1")
    \/ UpdateStep("r1")
    \/ DeleteStep("r1")
    \/ LikeStep("r1")
    \/ ReadStep("r1")

SpecLife == InitPublished /\ [][NextLife]_vars

\* C13: a like of a published Post raises its likeCount by exactly 1 and
\* returns the new count, however often the same user has liked it; a like
\* of a draft or of an absent Post answers not-found and changes nothing.
C13_LikeCountsOne ==
    \A r \in Slots : req[r].op = "like" /\ req[r].pc = "done" =>
        LET id == req[r].id
            pre == req[r].prePosts[id]
        IN  IF pre.exists /\ pre.status = "published"
            THEN /\ req[r].res = 200
                 /\ posts = [req[r].prePosts EXCEPT ![id].likeCount = pre.likeCount + 1]
                 /\ req[r].ret = posts[id].likeCount
                 /\ tags = req[r].preTags
            ELSE /\ req[r].res = 404
                 /\ posts = req[r].prePosts
                 /\ tags = req[r].preTags

\* the third like of the published Post by the same user has been counted
C13_Witness ==
    /\ Answered("r1", "like", 200)
    /\ req["r1"].ret = PostsPublished[1].likeCount + 3
    /\ posts[1].likeCount = req["r1"].ret

\* Post ids are handed out in order: an id that was handed out and has no
\* Post is the id of a deleted Post
Deleted(ps, next, id) == id <= next /\ ~ps[id].exists

-----------------------------------------------------------------------------
(* Updates that send only some of the fields.  A's Post 1 is published and *)
(* featured, carries tag go and has an excerpt, SEO fields and a cover.    *)

FullBody ==
    [PubBody EXCEPT !.excerpt = "e1", !.seoTitle = "s1", !.seoDescription = "d1",
                    !.featured = "true", !.file = "c1"]

InitFull ==
    /\ posts = [NoPosts EXCEPT ![1] = newPost("A", <<1>>, FullBody)]
    /\ tags = <<[name |-> sgo, postCount |-> 1]>>
    /\ nextPost = 1
    /\ started = 0
    /\ req = [r \in Slots |-> Idle]
    /\ client = ClientIdle

\* title and content, and any choice of the other fields
PartialBodies ==
    {[DefaultBody EXCEPT !.status = st, !.excerpt = ex, !.seoTitle = ex,
                         !.seoDescription = ex, !.featured = fe, !.file = fi] :
        st \in {undefined, "published"}, ex \in {undefined, "e2"},
        fe \in {undefined, "false"}, fi \in {undefined, "c2"}}

\* A updates Post 1 once
NextPartial ==
    \/ /\ req["r1"].pc = "idle"
       /\ \E b \in PartialBodies, tagsIn \in {tagsUndefined, Arr(<<sgo, sp>>)} :
            UpdateBegin("r1", "A", 1, tagsIn, b)
    \/ UpdateStep("r1")

SpecPartial == InitFull /\ [][NextPartial]_vars

\* C15: an update by the author leaves every field the request does not
\* supply at its previous value: status, the tag list with all postCounts,
\* excerpt, seoTitle, seoDescription, coverImage and featured; author is
\* never changed.
C15_UnsuppliedFieldsKept ==
    \A r \in Slots : Answered(r, "update", 200) =>
        LET pre == req[r].prePosts[req[r].id]
            now == posts[req[r].id]
            b == req[r].body
        IN  /\ now.author = pre.author
            /\ b.status = undefined => now.status = pre.status
            /\ req[r].tagsIn = tagsUndefined =>
                    now.tags = pre.tags /\ tags = req[r].preTags
            /\ b.excerpt = undefined => now.excerpt = pre.excerpt
            /\ b.seoTitle = undefined => now.seoTitle = pre.seoTitle
            /\ b.seoDescription = undefined => now.seoDescription = pre.seoDescription
            /\ b.file = undefined => now.coverImage = pre.coverImage
            /\ b.featured = undefined => now.featured = pre.featured

-----------------------------------------------------------------------------
(* Creates and updates whose title, content or status are at and around    *)
(* the limits of the validation rules, with and without surrounding blanks. *)

\* n characters between two blanks
padded(n) == <<" ">> \o chars(n) \o <<" ">>

Titles ==
    {chars(titleMin - 1), chars(titleMin), chars(titleMax), chars(titleMax + 1),
     padded(titleMin - 2), padded(titleMax - 1)}

Contents == {chars(contentMin - 1), chars(contentMin), padded(contentMin - 2)}

Statuses == {undefined, "draft", "published", "archived"}

ValidationBodies ==
    {Body(t, c, st) : t \in Titles, c \in Contents, st \in Statuses}

\* one create or one update of any Post id, by A
NextValidation ==
    \/ /\ req["r1"].pc = "idle"
       /\ \E b \in ValidationBodies : CreateBegin("r1", "A", Arr(<<sp>>), b)
    \/ /\ req["r1"].pc = "idle"
       /\ \E id \in PostIds, b \in ValidationBodies :
            UpdateBegin("r1", "A", id, Arr(<<sp>>), b)
    \/ CreateStep("r1")
    \/ UpdateStep("r1")

SpecValidation == InitShared /\ [][NextValidation]_vars

\* the request was rejected with field errors and nothing was written
Rejected(r) ==
    /\ req[r].pc = "done"
    /\ req[r].res = 400
    /\ req[r].errors # {}
    /\ posts = req[r].prePosts
    /\ tags = req[r].preTags

\* C16 as stated: a create or update whose title has a length outside
\* [3,200], whose content is shorter than 10 characters, or whose status is
\* supplied and is neither draft nor published, is rejected with field
\* errors and changes no state.
C16_OutOfRangeRejected ==
    \A r \in Slots : req[r].op \in {"create", "update"} =>
        LET b == req[r].body
        IN  ( \/ Len(b.title) < titleMin \/ Len(b.title) > titleMax
              \/ Len(b.content) < contentMin
              \/ b.status \notin {undefined, "draft", "published"} )
            => Rejected(r)

\* C16, amended: lengths are those of the title and content with leading
\* and trailing whitespace removed.  Such a request is rejected with the
\* errors of exactly the fields that are out of range and changes no state.
C16_TrimmedOutOfRangeRejected ==
    \A r \in Slots : req[r].op \in {"create", "update"} =>
        LET b == req[r].body
            badTitle == Len(trim(b.title)) < titleMin \/ Len(trim(b.title)) > titleMax
            badContent == Len(trim(b.content)) < contentMin
            badStatus == b.status \notin {undefined, "draft", "published"}
        IN  badTitle \/ badContent \/ badStatus =>
                /\ Rejected(r)
                /\ "title" \in req[r].errors <=> badTitle
                /\ "content" \in req[r].errors <=> badContent
                /\ "status" \in req[r].errors <=> badStatus

\* an update of the author's own Post with a title of 201 characters and
\* an unknown status was rejected
C16_Witness ==
    /\ Answered("r1", "update", 400)
    /\ req["r1"].prePosts[req["r1"].id].exists
    /\ req["r1"].prePosts[req["r1"].id].author = req["r1"].user
    /\ Len(trim(req["r1"].body.title)) > titleMax
    /\ req["r1"].errors = {"title", "status"}

-----------------------------------------------------------------------------
(* A delete that fails between its two writes *)

\* await Post.findByIdAndDelete(id) rejects (the store fails, or the process
\* stops and the client sees an error): nothing is removed, the catch block
\* answers 500
DeleteFail(r) ==
    /\ req[r].op = "delete" /\ req[r].pc = "remove"
    /\ req' = [req EXCEPT ![r] = Respond(@, 500)]
    /\ UNCHANGED <<posts, tags, nextPost, started, client>>

(* Deletes of different posts by their authors, any of which may fail      *)
(* after the tag counts have been released.                                *)
NextFail ==
    \E r \in Slots :
        \/ /\ req[r].pc = "idle"
           /\ \E id \in {1, 2} :
                /\ \A s \in Slots : ~(req[s].op = "delete" /\ req[s].id = id)
                /\ DeleteBegin(r, PostsShared[id].author, id)
        \/ /\ req[r].pc = "idle"
           /\ \E u \in Users : DeleteBegin(r, u, 3)
        \/ DeleteStep(r)
        \/ DeleteFail(r)

SpecFail == InitShared /\ [][NextFail]_vars

\* the deletes that failed after releasing the counts of Tag t
FailedAfterRelease(t) ==
    {r \in Slots : Answered(r, "delete", 500) /\ t \in Range(req[r].post.tags)}

\* C17 as stated: in the state left by a delete that failed between the
\* release of the tag counts and the removal of the post, no Tag's postCount
\* is lower than the number of existing posts that reference it.
C17_NoUndercountAfterFailure ==
    (\E r \in Slots : Answered(r, "delete", 500)) =>
        \A t \in TagIdsOf(tags) : tags[t].postCount >= Refs(posts, t)

\* C17, amended: the failed delete leaves its post in place, unchanged, and
\* each Tag of that post undercounted: once all requests have ended, every
\* Tag's postCount is the number of existing posts that reference it less
\* the number of failed deletes of posts that Tag is on.
C17_FailureLeavesPostAndUndercount ==
    /\ \A r \in Slots : Answered(r, "delete", 500) =>
            /\ posts[req[r].id].exists
            /\ posts[req[r].id] = req[r].prePosts[req[r].id]
    /\ Quiescent =>
            \A t \in TagIdsOf(tags) :
                tags[t].postCount =
                    Refs(posts, t) - Cardinality(FailedAfterRelease(t))

\* the delete of post 2 failed after its tags' counts were released, the
\* delete of post 1 succeeded
C17_Witness ==
    /\ Quiescent
    /\ \E r, s \in Slots :
        /\ Answered(r, "delete", 500) /\ req[r].id = 2
        /\ Answered(s, "delete", 200) /\ req[s].id = 1

-----------------------------------------------------------------------------
(* Likes of the published Post and of the draft by any user, one per slot, *)
(* in any interleaving.                                                    *)
NextLike ==
    \E r \in Slots :
        \/ /\ req[r].pc = "idle"
           /\ \E u \in Users, id \in {1, 2} : LikeBegin(r, u, id)
        \/ LikeStep(r)

SpecLike == InitPublished /\ [][NextLike]_vars

\* the likes of Post id that reported success
LikesAnswered(id) ==
    {r \in Slots : Answered(r, "like", 200) /\ req[r].id = id}

\* C18: no like is lost under concurrency: once k likes of the same
\* published Post have all reported success, its likeCount is exactly k
\* higher than before and the k returned likeCounts are pairwise distinct.
C18_NoLikeLost ==
    Quiescent =>
        \A id \in {1, 2} :
            /\ posts[id].likeCount =
                    PostsPublished[id].likeCount + Cardinality(LikesAnswered(id))
            /\ \A r, s \in LikesAnswered(id) : r # s => req[r].ret # req[s].ret

-----------------------------------------------------------------------------
(* GET /api/posts and GET /api/posts/recent *)

\* Post.find(query) with query = { status: 'published' } and, when a tag was
\* asked for, query.tags = tagDoc._id: the ids of the matching Posts
PostFind(ps, t) ==
    {i \in PostIds : /\ ps[i].exists
                     /\ ps[i].status = "published"
                     /\ t # NoTag => t \in Range(ps[i].tags)}

\* the request passes validation; without a tag filter the first await is
\* Post.find(query), with one it is Tag.findOne({ slug: tag }), which finds
\* the Tag or makes the handler answer an empty page
ListBegin(r, c, t) ==
    /\ Free(r)
    /\ started < MaxRequests
    /\ started' = started + 1
    /\ LET rec == [Enter("list", c.user, 0, Arr(<<>>), DefaultBody)
                        EXCEPT !.role = c.role, !.tag = t]
       IN  req' = [req EXCEPT ![r] =
                IF t = NoTag THEN [rec EXCEPT !.list = PostFind(posts, t), !.pc = "count"]
                ELSE IF t \in TagIdsOf(tags) THEN [rec EXCEPT !.pc = "find"]
                ELSE Respond(rec, 200)]
    /\ UNCHANGED <<posts, tags, nextPost, client>>

\* const posts = await Post.find(query)...lean()
ListFind(r) ==
    /\ req[r].op = "list" /\ req[r].pc = "find"
    /\ req' = [req EXCEPT ![r] =
            [@ EXCEPT !.list = PostFind(posts, req[r].tag), !.pc = "count"]]
    /\ UNCHANGED <<posts, tags, nextPost, started, client>>

\* const totalPosts = await Post.countDocuments(query); res.json({ posts, ... })
ListCount(r) ==
    /\ req[r].op = "list" /\ req[r].pc = "count"
    /\ req' = [req EXCEPT ![r] =
            Respond([@ EXCEPT !.ret = Cardinality(PostFind(posts, req[r].tag))], 200)]
    /\ UNCHANGED <<posts, tags, nextPost, started, client>>

ListStep(r) == ListFind(r) \/ ListCount(r)

\* const posts = await Post.find({ status: 'published' })...; res.json({ posts })
Recent(r) ==
    /\ Free(r)
    /\ started < MaxRequests
    /\ started' = started + 1
    /\ req' = [req EXCEPT ![r] =
            Respond([Enter("recent", "none", 0, Arr(<<>>), DefaultBody)
                        EXCEPT !.role = "anonymous", !.list = PostFind(posts, NoTag)], 200)]
    /\ UNCHANGED <<posts, tags, nextPost, client>>

(* Who gets to see a draft, one request at a time: the authors publish and *)
(* withdraw their Posts, anybody reads, lists and asks for recent Posts.   *)
NextDraft ==
    \/ \E id \in {1, 2}, b \in {PubBody, DraftBody} :
            UpdateBegin("r1", PostsPublished[id].author, id, Arr(<<sp>>), b)
    \/ \E c \in ReadCallers, id \in PostIds : ReadBegin("r1", c, id)
    \/ \E c \in {Anonymous, [user |-> "B", role |-> "user"]}, t \in {NoTag, 1, 3} :
            ListBegin("r1", c, t)
    \/ Recent("r1")
    \/ UpdateStep("r1")
    \/ ReadStep("r1")
    \/ ListStep("r1")

SpecDraft == InitPublished /\ [][NextDraft]_vars

\* the Posts that are drafts
Drafts(ps) == {i \in PostIds : ps[i].exists /\ ps[i].status # "published"}

\* C20: a draft is never disclosed to a caller who is not an admin or
\* super_admin: the list and recent endpoints return only published Posts,
\* and a read of a draft by an anonymous caller or by a user who is not an
\* admin, its author included, answers not-found exactly as for an absent
\* Post and changes no state.
C20_DraftNotDisclosed ==
    \A r \in Slots : req[r].pc = "done" =>
        /\ req[r].op \in {"list", "recent"} =>
                /\ req[r].res = 200
                /\ req[r].list \cap Drafts(posts) = {}
                /\ req[r].tag = NoTag =>
                        req[r].list = {i \in PostIds : posts[i].exists} \ Drafts(posts)
                /\ posts = req[r].prePosts
                /\ tags = req[r].preTags
        /\ ( /\ req[r].op = "read"
             /\ req[r].id \in Drafts(req[r].prePosts)
             /\ req[r].role \notin {"admin", "super_admin"} )
            => /\ req[r].res = 404
               /\ req[r].ret = Idle.ret
               /\ posts = req[r].prePosts
               /\ tags = req[r].preTags

\* the author of a draft, who is no admin, read it and was answered
\* not-found, after the draft had been published and withdrawn again
C20_Witness ==
    /\ Answered("r1", "read", 404)
    /\ req["r1"].role = "user"
    /\ req["r1"].id \in Drafts(posts)
    /\ posts[req["r1"].id].author = req["r1"].user
    /\ req["r1"].id = 1

-----------------------------------------------------------------------------
(* services/api.ts: the request and response interceptors of the client    *)

\* the characters of [a-zA-Z0-9]
Alnum ==
    {"a", "b", "c", "d", "e", "f", "g", "h", "i", "j", "k", "l", "m",
     "n", "o", "p", "q", "r", "s", "t", "u", "v", "w", "x", "y", "z",
     "A", "B", "C", "D", "E", "F", "G", "H", "I", "J", "K", "L", "M",
     "N", "O", "P", "Q", "R", "S", "T", "U", "V", "W", "X", "Y", "Z",
     "0", "1", "2", "3", "4", "5", "6", "7", "8", "9"}

urlPosts == <<"/", "p", "o", "s", "t", "s">>
urlRecent == <<"/", "p", "o", "s", "t", "s", "/", "r", "e", "c", "e", "n", "t">>
urlPostsPage == <<"/", "p", "o", "s", "t", "s", "?", "p", "a", "g", "e", "=", "2">>
urlComments == <<"/", "c", "o", "m", "m", "e", "n", "t", "s">>
urlAuthMe == <<"/", "a", "u", "t", "h", "/", "m", "e">>
urlAuthProfile == <<"/", "a", "u", "t", "h", "/", "p", "r", "o", "f", "i", "l", "e">>
urlAuthLogin == <<"/", "a", "u", "t", "h", "/", "l", "o", "g", "i", "n">>
sSlash == <<"/">>
sLike == <<"/", "l", "i", "k", "e">>
sReply == <<"/", "r", "e", "p", "l", "y">>

\* an ObjectId-like id, and a slug
idHex == <<"6", "4", "a", "b">>
idSlug == <<"m", "y", "-", "p", "o", "s", "t">>
Ids == {idHex, idSlug}

\* `/posts/${id}`, `/posts/${id}/like`, `/comments/${id}`, `/comments/${id}/reply`
postUrl(id) == urlPosts \o sSlash \o id
likeUrl(id) == postUrl(id) \o sLike
commentUrl(id) == urlComments \o sSlash \o id
replyUrl(id) == commentUrl(id) \o sReply

\* url.startsWith(prefix)
startsWith(url, prefix) ==
    Len(url) >= Len(prefix) /\ SubSeq(url, 1, Len(prefix)) = prefix

\* url.includes(part)
urlIncludes(url, part) ==
    \E i \in 1..Len(url) :
        i + Len(part) - 1 <= Len(url) /\ SubSeq(url, i, i + Len(part) - 1) = part

\* url.match(/^<base>\/[a-zA-Z0-9]+$/)
matchId(url, base) ==
    /\ startsWith(url, base \o sSlash)
    /\ Len(url) > Len(base) + 1
    /\ \A i \in (Len(base) + 2)..Len(url) : url[i] \in Alnum

publicEndpoints == {urlPosts, urlRecent}

\* const isPublicEndpoint = (url) => ...
isPublicEndpoint(url) ==
    \/ matchId(url, urlPosts)
    \/ matchId(url, urlComments)
    \/ \E endpoint \in publicEndpoints :
            url = endpoint \/ startsWith(url, endpoint \o <<"?">>)

\* if (!isPublicEndpoint(url)) { let token = localStorage.getItem('token');
\*   if (!token && import.meta.env.DEV && import.meta.env.VITE_DEV_TOKEN)
\*     token = import.meta.env.VITE_DEV_TOKEN;
\*   if (token) config.headers.Authorization = `Bearer ${token}` }:
\* the token of the header, null when no header is set; devToken stands for
\* import.meta.env.DEV && import.meta.env.VITE_DEV_TOKEN
tokenFor(url, token, devToken) ==
    IF isPublicEndpoint(url) THEN null
    ELSE IF token = null /\ devToken # null THEN devToken
    ELSE token

Methods == {"get", "post", "put", "delete"}

Urls ==
    {urlPosts, urlRecent, urlPostsPage, urlAuthMe, urlAuthProfile, urlAuthLogin} \cup
    {postUrl(id) : id \in Ids} \cup {likeUrl(id) : id \in Ids} \cup
    {commentUrl(id) : id \in Ids} \cup {replyUrl(id) : id \in Ids}

\* api.get / api.post / api.put / api.delete: the request interceptor runs
\* and the request is sent
Request(method, url) ==
    /\ client' = [client EXCEPT !.sent =
            [method |-> method, url |-> url,
             Authorization |-> tokenFor(url, client.token, client.devToken),
             stored |-> client.token]]
    /\ UNCHANGED <<posts, tags, nextPost, started, req>>

\* the response interceptor on a 401: if (url.includes('/auth/me') ||
\* url.includes('/auth/profile')) localStorage.removeItem('token')
Unauthorized ==
    /\ client.sent # NoRequest
    /\ client' = [client EXCEPT !.token =
            IF \/ urlIncludes(client.sent.url, urlAuthMe)
               \/ urlIncludes(client.sent.url, urlAuthProfile)
            THEN null ELSE @]
    /\ UNCHANGED <<posts, tags, nextPost, started, req>>

(* The browser starts signed in or not, with or without a development      *)
(* token, and sends any request; a response may be a 401.                  *)
InitClient ==
    /\ posts = NoPosts
    /\ tags = <<>>
    /\ nextPost = 0
    /\ started = 0
    /\ req = [r \in Slots |-> Idle]
    /\ client \in {[ClientIdle EXCEPT !.token = t, !.devToken = d] :
                        t \in {null, "t1"}, d \in {null, "dev"}}

NextClient ==
    \/ \E method \in Methods, url \in Urls : Request(method, url)
    \/ Unauthorized

SpecClient == InitClient /\ [][NextClient]_vars

\* the routes of the posts router behind authenticateToken: router.post('/'),
\* router.put('/:id'), router.delete('/:id'), router.post('/:id/like')
GuardedPosts(method, url) ==
    \/ method = "post" /\ url = urlPosts
    \/ method \in {"put", "delete"} /\ \E id \in Ids : url = postUrl(id)
    \/ method = "post" /\ \E id \in Ids : url = likeUrl(id)

\* the routes of the comments router behind authenticateToken
GuardedComments(method, url) ==
    method \in {"post", "put", "delete"} /\ \E id \in Ids : url = commentUrl(id)

\* C19: whenever a token is in localStorage, a request to an endpoint the
\* backend guards with authenticateToken (PUT and DELETE /posts/:id, POST
\* /posts/:id/like, POST, PUT and DELETE /comments/:id) carries it as its
\* Authorization Bearer header, whatever the id looks like.
C19_ProtectedRequestsCarryToken ==
    ( /\ client.sent.stored # null
      /\ \/ GuardedPosts(client.sent.method, client.sent.url)
         \/ GuardedComments(client.sent.method, client.sent.url) )
        => client.sent.Authorization = client.sent.stored

====
